---- MODULE Spec2Model ----
(***************************************************************************)
(* A model of the 2D Ising simulation of Rectangular2D.py (initialize,     *)
(* magnetization, checkEnergyDiff, checkFlip, simulate) and of the         *)
(* temperature sweep of MagnetizationDistribution.py (the kT list, the     *)
(* argument list, Pool.map_async and result.get()).                        *)
(*                                                                         *)
(* Numbers.  Spins, J, B and mu are integers.  A temperature kT is held in *)
(* thousandths (kT = 1 stands for 0.001, the default of simulate), a       *)
(* probability in hundredths.  Floating point enters the program in two    *)
(* places only: math.exp(-diffEnergy / temp), of which the model keeps the *)
(* class of the result (0.0, strictly between 0 and 1, at least 1, or      *)
(* OverflowError), and the normalised magnetization M / float(rows*cols),  *)
(* which the model keeps as the integer numerator M.                       *)
(***************************************************************************)
EXTENDS Integers, Sequences, FiniteSets, TLC

VARIABLES
    \* ---- one run of simulate (Rectangular2D.py) ----
    pc,        \* "Initializing", "Stepping", "Terminated", "Faulted"
    lattice,   \* lattice[row][col] \in {1, -1}
    rows, cols, prob, kT, J, B, mu, tmax,   \* the arguments of simulate
    t,         \* the loop variable of  for t in range(0, tmax)
    i,         \* the loop variable of  for i in range(0, rows * cols)
    steps,     \* number of time steps executed so far
    mag,       \* numerator of the returned mag = M / float(rows * cols)
    branch,    \* the branch the last checkFlip took
    \* ---- single calls of checkEnergyDiff / checkFlip ----
    probe,
    \* ---- the sweep of MagnetizationDistribution.py ----
    mainpc,    \* position of the main program
    kTs,       \* the temperatures to measure
    samples,   \* simulations per temperature
    kTidx,     \* loop variable of the list-building loop
    kTlist,    \* the list the source calls kT (one entry per run)
    args,      \* the argument tuples handed to map_async
    task,      \* task[n]: "queued", "running", "done" (n is 1-based here)
    produced,  \* produced[n]: what run n returned or raised
    value,     \* MapResult._value
    numberLeft, \* MapResult._number_left
    success,   \* MapResult._success
    endResult, \* result.get()
    overtook   \* a run has ended before a run dispatched earlier

runVars == <<pc, lattice, rows, cols, prob, kT, J, B, mu, tmax, t, i, steps, mag, branch>>
sweepVars == <<mainpc, kTs, samples, kTidx, kTlist, args, task, produced, value,
               numberLeft, success, endResult, overtook>>
vars == <<runVars, probe, sweepVars>>

-----------------------------------------------------------------------------
(* Bounds of the model *)

\* simulate is explored on lattices of at most MaxCells sites
MaxCells == 4
\* and for tmax up to MaxT
MaxT == 2
\* single calls are explored on lattices of at most MaxProbeCells sites
MaxProbeCells == 9
\* a sweep dispatches at most MaxRuns runs
MaxRuns == 4
\* on at most MaxWorkers pool processes
MaxWorkers == 2

-----------------------------------------------------------------------------
(* Representation of numbers *)

\* kT is held in thousandths: KTUnit stands for kT = 1.0
KTUnit == 1000
\* prob is held in hundredths: ProbOne stands for prob = 1.0
ProbOne == 100
\* math.exp(x) is 0.0 for x < -745.13 and raises OverflowError for x > 709.78
\* (IEEE double); both thresholds in hundredths
ExpUnderflow == 74513
ExpOverflow == 70978

\* the temperatures the model draws from: -2.0, -0.001, 0, 0.001, 2.0
KTValues == {-2000, -1, 0, 1, 2000}

Abs(x) == IF x < 0 THEN -x ELSE x

-----------------------------------------------------------------------------
(* Rectangular2D.py *)

Spins(p) == IF p >= ProbOne THEN {1} ELSE IF p <= 0 THEN {-1} ELSE {1, -1}

\* np.random.choice([1, -1], size=(rows, cols), p=[prob, 1 - prob]): every
\* lattice the draw can produce
initialize(r, c, p) == [0 .. r - 1 -> [0 .. c - 1 -> Spins(p)]]

RECURSIVE SumTo(_, _)
SumTo(f, n) == IF n < 0 THEN 0 ELSE f[n] + SumTo(f, n - 1)

\* lattice.shape
Shape(lat) == <<Cardinality(DOMAIN lat), Cardinality(DOMAIN lat[0])>>

\* np.sum(lattice)
magnetization(lat) ==
    LET nr == Shape(lat)[1]
        nc == Shape(lat)[2]
        rowSum == [r \in 0 .. nr - 1 |-> SumTo(lat[r], nc - 1)]
    IN  SumTo(rowSum, nr - 1)

\* the default values of J, B and mu in the signatures
DefaultJ == 1
DefaultB == 0
DefaultMu == 1

\* a variant that counts the lower neighbour twice and the upper one never
checkEnergyDiffLowerTwice(row, col, lat, temp, Jc, Bf, m) ==
    LET nr == Shape(lat)[1]
        nc == Shape(lat)[2]
    IN  2 * Jc * lat[row][col] * (lat[(row + 1) % nr][col]
                                  + lat[row][(col + 1) % nc]
                                  + lat[(row + 1) % nr][col]
                                  + lat[row][(col + nc - 1) % nc])
        + 2 * Bf * m * lat[row][col]

checkEnergyDiff(row, col, lat, temp, Jc, Bf, m) ==
    LET nr == Shape(lat)[1]
        nc == Shape(lat)[2]
    IN  2 * Jc * lat[row][col] * (lat[(row + nr - 1) % nr][col]
                                  + lat[row][(col + 1) % nc]
                                  + lat[(row + 1) % nr][col]
                                  + lat[row][(col + nc - 1) % nc])
        + 2 * Bf * m * lat[row][col]

\* a variant that scales the spin as it negates it
FlipSiteDouble(lat, row, col) ==
    [lat EXCEPT ![row][col] = -2 * lat[row][col]]

\* a variant that sets the spin down instead of negating it
FlipSiteDown(lat, row, col) ==
    [lat EXCEPT ![row][col] = -1]

\* lattice[row][col] = -1 * lattice[row][col]
FlipSite(lat, row, col) ==
    [lat EXCEPT ![row][col] = -1 * lat[row][col]]

\* The class of BoltzFactor = math.exp(-diffEnergy / temp) for diffEnergy > 0.
\* diffEnergy is a numpy integer, so temp = 0 divides to -inf (a warning, no
\* exception) and the factor is 0.0.
BoltzFactor(diffEnergy, temp) ==
    IF temp = 0 THEN "zero"
    ELSE IF temp > 0
         THEN IF diffEnergy * KTUnit * 100 > ExpUnderflow * temp
              THEN "zero" ELSE "fraction"
         ELSE IF diffEnergy * KTUnit * 100 > ExpOverflow * (-temp)
              THEN "overflow" ELSE "atLeastOne"

\* random.random() < BoltzFactor, for a draw in [0, 1): the possible answers
DrawBelow(factor) ==
    CASE factor = "zero" -> {FALSE}
      [] factor = "fraction" -> {TRUE, FALSE}
      [] factor = "atLeastOne" -> {TRUE}

\* a variant that keeps the flips that cost energy and draws for the others
checkFlipInverted(row, col, lat, temp, Jc, Bf, m) ==
    LET diffEnergy == checkEnergyDiff(row, col, lat, temp, DefaultJ, DefaultB, DefaultMu)
    IN  IF diffEnergy >= 0
        THEN {[lattice |-> FlipSite(lat, row, col), branch |-> "favourable"]}
        ELSE {[lattice |-> lat, branch |-> "notKept"]}

\* checkFlip: the outcomes of one call, each the lattice it returns and the
\* branch taken.  The call of checkEnergyDiff passes neither J nor B nor mu.
checkFlip(row, col, lat, temp, Jc, Bf, m) ==
    LET diffEnergy == checkEnergyDiff(row, col, lat, temp, DefaultJ, DefaultB, DefaultMu)
    IN  IF diffEnergy <= 0
        THEN {[lattice |-> FlipSite(lat, row, col), branch |-> "favourable"]}
        ELSE IF BoltzFactor(diffEnergy, temp) = "overflow"
             THEN {[lattice |-> lat, branch |-> "OverflowError"]}
             ELSE {[lattice |-> IF keep THEN FlipSite(lat, row, col) ELSE lat,
                    branch |-> IF keep THEN "kept" ELSE "notKept"] :
                       keep \in DrawBelow(BoltzFactor(diffEnergy, temp))}

\* a variant that forgets the abs() of the magnetization check
SaturatedSigned(lat, r, c) == magnetization(lat) = r * c

\* currentMag == 1
Saturated(lat, r, c) == Abs(magnetization(lat)) = r * c

-----------------------------------------------------------------------------
(* Values of the variables a specification does not use *)

NoRun ==
    /\ pc = "idle" /\ lattice = <<>> /\ t = 0 /\ i = 0 /\ steps = 0 /\ mag = 0
    /\ branch = "none"
NoProbe == probe = [op |-> "none"]
NoSweep ==
    /\ mainpc = "idle" /\ kTs = <<>> /\ samples = 0 /\ kTidx = 0 /\ kTlist = <<>>
    /\ args = <<>> /\ task = <<>> /\ produced = <<>> /\ value = <<>>
    /\ numberLeft = 0 /\ success = TRUE /\ endResult = <<>> /\ overtook = FALSE

-----------------------------------------------------------------------------
(* simulate *)

InitRun ==
    /\ rows \in 1 .. MaxCells
    /\ cols \in 1 .. MaxCells
    /\ rows * cols <= MaxCells
    /\ prob \in {0, 50, ProbOne}
    /\ kT \in KTValues
    /\ J \in {-1, 1}
    /\ B = 0
    /\ mu = 1
    /\ tmax \in 0 .. MaxT
    /\ pc = "Initializing"
    /\ lattice = <<>>
    /\ t = 0 /\ i = 0 /\ steps = 0 /\ mag = 0
    /\ branch = "none"
    /\ NoProbe /\ NoSweep

\* lattice = initialize(rows, cols, prob)
Initialize ==
    /\ pc = "Initializing"
    /\ lattice' \in initialize(rows, cols, prob)
    /\ pc' = "Stepping"
    /\ UNCHANGED <<rows, cols, prob, kT, J, B, mu, tmax, t, i, steps, mag, branch>>
    /\ UNCHANGED <<probe, sweepVars>>

\* one pass of the inner loop: a random site, then checkFlip
AttemptFlip ==
    /\ pc = "Stepping"
    /\ t < tmax
    /\ i < rows * cols
    /\ \E row \in 0 .. rows - 1, col \in 0 .. cols - 1 :
         \E out \in checkFlip(row, col, lattice, kT, J, B, mu) :
            /\ branch' = out.branch
            /\ IF out.branch = "OverflowError"
               THEN /\ pc' = "Faulted"
                    /\ UNCHANGED <<lattice, i>>
               ELSE /\ lattice' = out.lattice
                    /\ i' = i + 1
                    /\ pc' = pc
    /\ UNCHANGED <<rows, cols, prob, kT, J, B, mu, tmax, t, steps, mag>>
    /\ UNCHANGED <<probe, sweepVars>>

\* the end of a time step: the magnetization check, then break (and the
\* return) or the next pass of the outer loop
EndStep ==
    /\ pc = "Stepping"
    /\ t < tmax
    /\ i = rows * cols
    /\ steps' = steps + 1
    /\ IF Saturated(lattice, rows, cols)
       THEN /\ pc' = "Terminated"
            /\ mag' = magnetization(lattice)
            /\ UNCHANGED <<t, i>>
       ELSE /\ t' = t + 1
            /\ i' = 0
            /\ UNCHANGED <<pc, mag>>
    /\ UNCHANGED <<lattice, rows, cols, prob, kT, J, B, mu, tmax, branch>>
    /\ UNCHANGED <<probe, sweepVars>>

\* range(0, tmax) is exhausted: the return
Return ==
    /\ pc = "Stepping"
    /\ t = tmax
    /\ pc' = "Terminated"
    /\ mag' = magnetization(lattice)
    /\ UNCHANGED <<lattice, rows, cols, prob, kT, J, B, mu, tmax, t, i, steps, branch>>
    /\ UNCHANGED <<probe, sweepVars>>

Next == Initialize \/ AttemptFlip \/ EndStep \/ Return

Spec == InitRun /\ [][Next]_vars

\* simulate is sequential code: a step that can be taken is taken
FairSpec == Spec /\ WF_vars(Next)

-----------------------------------------------------------------------------
(* Properties of simulate *)

Cells == rows * cols

\* every site of the lattice holds the same spin
AllSame(lat) ==
    \A r1 \in DOMAIN lat, r2 \in DOMAIN lat :
        \A c1 \in DOMAIN lat[r1], c2 \in DOMAIN lat[r2] : lat[r1][c1] = lat[r2][c2]

Halted == pc \in {"Terminated", "Faulted"}

\* C1 (as amended): simulate halts.  A time step ends the run exactly when all
\* spins are equal at its end; a run that returns without that has executed
\* exactly tmax steps, a run that stops at the end of the step with loop
\* index t has executed exactly t + 1 steps (at most tmax, and fewer than
\* tmax when t < tmax - 1); nothing changes once the run is Terminated.
RunStepCount ==
    /\ [](pc = "Terminated" /\ t = tmax => steps = tmax)
    /\ [](pc = "Terminated" /\ t < tmax =>
              /\ steps = t + 1
              /\ steps <= tmax
              /\ (t < tmax - 1 => steps < tmax)
              /\ AllSame(lattice))
    /\ [][steps' # steps =>
              /\ steps' = steps + 1
              /\ pc = "Stepping" /\ i = Cells
              /\ (pc' = "Terminated") <=> AllSame(lattice)]_vars
    /\ [][pc = "Terminated" => UNCHANGED vars]_vars
    /\ <>Halted

\* C1 witness: a run stopped by the magnetization check before its last step
StoppedEarly ==
    pc = "Terminated" /\ t < tmax /\ steps = t + 1 /\ steps < tmax /\ Cells > 1

\* C1 (original): a run stopped by the check at the end of step t < tmax has
\* executed strictly fewer than tmax steps
StoppedStrictlyEarlier ==
    pc = "Terminated" /\ t < tmax /\ AllSame(lattice) => steps < tmax

\* C4: after initialization every cell is +1 or -1, the lattice keeps its
\* rows x cols shape, and the magnetization (so the returned mag, a numerator
\* over rows * cols) lies between -rows*cols and rows*cols
MagnetizationInRange ==
    pc # "Initializing" =>
        /\ DOMAIN lattice = 0 .. rows - 1
        /\ \A r \in DOMAIN lattice :
              /\ DOMAIN lattice[r] = 0 .. cols - 1
              /\ \A c \in DOMAIN lattice[r] : lattice[r][c] \in {1, -1}
        /\ -Cells <= magnetization(lattice) /\ magnetization(lattice) <= Cells
        /\ (pc = "Terminated" =>
              /\ mag = magnetization(lattice)
              /\ -Cells <= mag /\ mag <= Cells)

\* C4 witness: a run that returned after flipping a site of a mixed lattice
ReturnedAfterFlips ==
    /\ pc = "Terminated" /\ steps >= 1 /\ branch \in {"favourable", "kept"}
    /\ Cells > 1 /\ mag # Cells /\ mag # -Cells

ValidParams == rows > 0 /\ cols > 0 /\ 0 <= prob /\ prob <= ProbOne /\ kT > 0

\* C7: a run with invalid parameters never enters Stepping, attempts no flip
\* and meets no fault
InvalidNeverSteps ==
    ~ValidParams => pc = "Initializing" /\ i = 0 /\ steps = 0

\* C10: on a lattice of equal spins, with J > 0 and B = 0, the energy change
\* of every flip is strictly positive, and a flip attempt that does not keep
\* a costly flip leaves the lattice, and |M| = rows*cols, as they are
AlignedIsAbsorbing ==
    /\ [](pc # "Initializing" /\ J > 0 /\ B = 0 /\ AllSame(lattice) =>
              \A r \in 0 .. rows - 1, c \in 0 .. cols - 1 :
                  checkEnergyDiff(r, c, lattice, kT, J, B, mu) > 0)
    /\ [][/\ pc = "Stepping" /\ J > 0 /\ B = 0 /\ AllSame(lattice)
          /\ ~(i' = i + 1 /\ branch' = "kept")
          => /\ lattice' = lattice
             /\ Abs(magnetization(lattice')) = Cells]_vars

\* C10 witness: a flip was attempted on an aligned lattice and not kept
AlignedFlipRejected ==
    /\ pc = "Stepping" /\ J > 0 /\ B = 0 /\ AllSame(lattice)
    /\ i > 0 /\ branch = "notKept" /\ Cells > 1

-----------------------------------------------------------------------------
(* Single calls: checkEnergyDiff on a given lattice, a flip and the flip *)
(* back, checkFlip with the caller's J, B and mu                          *)

InitSite ==
    /\ rows \in 1 .. MaxProbeCells
    /\ cols \in 1 .. MaxProbeCells
    /\ rows * cols <= MaxProbeCells
    /\ prob = 50
    /\ lattice \in initialize(rows, cols, prob)
    /\ kT = 1
    /\ J \in {-1, 2}
    /\ B \in {0, 1}
    /\ mu \in {1, 2}
    /\ tmax = 0
    /\ pc = "idle" /\ t = 0 /\ i = 0 /\ steps = 0 /\ mag = 0 /\ branch = "none"
    /\ NoProbe /\ NoSweep

\* energy = checkEnergyDiff(row, col, lattice, temp, J, B, mu)
EnergyDelta ==
    /\ probe.op = "none"
    /\ \E row \in 0 .. rows - 1, col \in 0 .. cols - 1 :
         probe' = [op |-> "energy", row |-> row, col |-> col, before |-> lattice,
                   energy |-> checkEnergyDiff(row, col, lattice, kT, J, B, mu)]
    /\ UNCHANGED <<runVars, sweepVars>>

\* the energy difference of a site, then the flip of that site
Flip ==
    /\ probe.op = "none"
    /\ \E row \in 0 .. rows - 1, col \in 0 .. cols - 1 :
         /\ probe' = [op |-> "flipped", row |-> row, col |-> col, before |-> lattice,
                      energy |-> checkEnergyDiff(row, col, lattice, kT, J, B, mu)]
         /\ lattice' = FlipSite(lattice, row, col)
    /\ UNCHANGED <<pc, rows, cols, prob, kT, J, B, mu, tmax, t, i, steps, mag, branch>>
    /\ UNCHANGED sweepVars

\* the energy difference of the flipped site, then the flip back
FlipBack ==
    /\ probe.op = "flipped"
    /\ probe' = [op |-> "restored", row |-> probe.row, col |-> probe.col,
                 before |-> probe.before, energy |-> probe.energy,
                 energyBack |-> checkEnergyDiff(probe.row, probe.col, lattice, kT, J, B, mu)]
    /\ lattice' = FlipSite(lattice, probe.row, probe.col)
    /\ UNCHANGED <<pc, rows, cols, prob, kT, J, B, mu, tmax, t, i, steps, mag, branch>>
    /\ UNCHANGED sweepVars

NextSite == EnergyDelta \/ Flip \/ FlipBack

SpecSite == InitSite /\ [][NextSite]_vars

InitFlip ==
    /\ rows \in 1 .. MaxCells
    /\ cols \in 1 .. MaxCells
    /\ rows * cols <= MaxCells
    /\ prob = 50
    /\ lattice \in initialize(rows, cols, prob)
    /\ kT \in {1, 2000}
    /\ J \in {-1, 1, 2}
    /\ B \in {-1, 0, 1}
    /\ mu \in {1, 2}
    /\ tmax = 0
    /\ pc = "idle" /\ t = 0 /\ i = 0 /\ steps = 0 /\ mag = 0 /\ branch = "none"
    /\ NoProbe /\ NoSweep

\* lattice = checkFlip(row, col, lattice, kT, J=J, B=B, mu=mu)
Attempt ==
    /\ probe.op # "raised"
    /\ \E row \in 0 .. rows - 1, col \in 0 .. cols - 1 :
         \E out \in checkFlip(row, col, lattice, kT, J, B, mu) :
            /\ probe' = [op |-> IF out.branch = "OverflowError" THEN "raised" ELSE "attempt",
                         row |-> row, col |-> col, before |-> lattice]
            /\ branch' = out.branch
            /\ lattice' = out.lattice
    /\ UNCHANGED <<pc, rows, cols, prob, kT, J, B, mu, tmax, t, i, steps, mag>>
    /\ UNCHANGED sweepVars

NextFlip == Attempt

SpecFlip == InitFlip /\ [][NextFlip]_vars

-----------------------------------------------------------------------------
(* Properties of single calls *)

\* the energy change of the specification: 2 J s (sum of the four periodic
\* neighbours) + 2 B mu s
EnergyFormula(lat, row, col, Jc, Bf, m) ==
    LET s == lat[row][col]
    IN  2 * Jc * s * (lat[(row - 1) % rows][col] + lat[(row + 1) % rows][col]
                      + lat[row][(col - 1) % cols] + lat[row][(col + 1) % cols])
        + 2 * Bf * m * s

\* C2: checkFlip applies the Metropolis rule to the energy change of the J, B
\* and mu it was given: a change <= 0 flips the site whatever the draw, a
\* change > 0 flips it only on a draw below the Boltzmann factor
MetropolisOnGivenEnergy ==
    probe.op \in {"attempt", "raised"} =>
        LET dE == EnergyFormula(probe.before, probe.row, probe.col, J, B, mu)
        IN  /\ dE <= 0 => lattice = FlipSite(probe.before, probe.row, probe.col)
            /\ dE > 0 => branch # "favourable"

\* C3: checkEnergyDiff returns the energy change of the formula, with all
\* four neighbours wrapped into the grid, and leaves the lattice as it was
EnergyDiffMatchesFormula ==
    probe.op = "energy" =>
        /\ probe.energy = EnergyFormula(probe.before, probe.row, probe.col, J, B, mu)
        /\ lattice = probe.before

\* C3 witness: a corner site of a mixed 2 x 3 lattice in a field
EnergyOnWrappedCorner ==
    /\ probe.op = "energy" /\ rows = 2 /\ cols = 3
    /\ probe.row = 0 /\ probe.col = 2
    /\ B # 0 /\ ~AllSame(lattice) /\ probe.energy # 0

\* C9 (as amended): a flip and the flip back restore the lattice, and on a
\* lattice with rows, cols >= 2 the energy change before the reverse flip is
\* the negation of the one before the first flip
FlipBackNegatesEnergy ==
    probe.op = "restored" =>
        /\ lattice = probe.before
        /\ (rows >= 2 /\ cols >= 2 => /\ probe.energyBack = -probe.energy
                                      /\ Abs(probe.energyBack) = Abs(probe.energy))

\* C9 witness: a round trip on a 3 x 3 lattice with a non-zero energy change
RoundTripDone ==
    probe.op = "restored" /\ rows = 3 /\ cols = 3 /\ probe.energy # 0 /\ B # 0

\* C9 (original): a flip and the flip back restore the lattice, and the two
\* energy changes have the same magnitude and the same sign
FlipBackSameEnergy ==
    probe.op = "restored" =>
        /\ lattice = probe.before
        /\ probe.energyBack = probe.energy

-----------------------------------------------------------------------------
(* MagnetizationDistribution.py *)

\* the fixed parameters of the sweep
SweepRows == 30
SweepCols == 30
SweepProb == 50
SweepJ == 1
SweepB == 0
SweepMu == 1
SweepTmax == 1200

\* the temperatures a sweep is given: -0.001, 0.001, 2.0
SweepKTValues == {-1, 1, 2000}

\* the normalised magnetizations a run may return: -1.0, a value in between
\* (written 0), 1.0
MagValues == {-1, 0, 1}

\* a variant that puts the new temperature in front of the list
ExtendFront(list, temp, count) == [k \in 1 .. count |-> temp] \o list

\* kT += [kTs[kTidx]] * samples
Extend(list, temp, count) == list \o [k \in 1 .. count |-> temp]

\* args = [(rows, cols, prob, temp, J, B, mu, tmax) for temp in kT]
BuildArgs(list) ==
    [n \in 1 .. Len(list) |-> <<rows, cols, prob, list[n], J, B, mu, tmax>>]

\* simulateParallel(args): what the call returns or raises.  simulate raises
\* OverflowError when math.exp overflows on a costly flip (diffEnergy is 4 or
\* 8 with the default coupling), otherwise it returns a magnetization.
simulateParallel(a) ==
    {[ok |-> TRUE, mag |-> m] : m \in MagValues}
    \cup (IF \E dE \in {4, 8} : BoltzFactor(dE, a[4]) = "overflow"
          THEN {[ok |-> FALSE, error |-> "OverflowError"]}
          ELSE {})

\* a variant that stores results in the order in which the runs end
SetValueNextFree(val, n, res) ==
    [val EXCEPT ![Len(val) - numberLeft + 1] = res]

\* MapResult._set for chunk n (chunksize = 1): a result is stored at the
\* position of its task
SetValue(val, n, res) == [val EXCEPT ![n] = res]

NumRunning == Cardinality({n \in DOMAIN task : task[n] = "running"})

InitSweep ==
    /\ kTs \in UNION {[1 .. len -> SweepKTValues] : len \in 0 .. MaxRuns}
    /\ samples \in 0 .. MaxRuns
    /\ Len(kTs) * samples <= MaxRuns
    /\ rows = SweepRows /\ cols = SweepCols /\ prob = SweepProb
    /\ J = SweepJ /\ B = SweepB /\ mu = SweepMu /\ tmax = SweepTmax
    /\ kT = 0
    /\ NoRun /\ NoProbe
    /\ mainpc = "listing"
    /\ kTidx = 0 /\ kTlist = <<>> /\ args = <<>>
    /\ task = <<>> /\ produced = <<>> /\ value = <<>>
    /\ numberLeft = 0 /\ success = TRUE /\ endResult = <<>>
    /\ overtook = FALSE

\* one pass of  for kTidx in range(0, kTs.size)
ListTemperature ==
    /\ mainpc = "listing"
    /\ kTidx < Len(kTs)
    /\ kTlist' = Extend(kTlist, kTs[kTidx + 1], samples)
    /\ kTidx' = kTidx + 1
    /\ UNCHANGED <<mainpc, kTs, samples, args, task, produced, value, numberLeft,
                   success, endResult, overtook>>
    /\ UNCHANGED <<runVars, probe>>

\* the loop is over: the argument list
MakeArgs ==
    /\ mainpc = "listing"
    /\ kTidx = Len(kTs)
    /\ args' = BuildArgs(kTlist)
    /\ mainpc' = "dispatch"
    /\ UNCHANGED <<kTs, samples, kTidx, kTlist, task, produced, value, numberLeft,
                   success, endResult, overtook>>
    /\ UNCHANGED <<runVars, probe>>

\* result = workers.map_async(simulateParallel, args, chunksize=1)
MapAsync ==
    /\ mainpc = "dispatch"
    /\ task' = [n \in 1 .. Len(args) |-> "queued"]
    /\ produced' = [n \in 1 .. Len(args) |-> "None"]
    /\ value' = [n \in 1 .. Len(args) |-> "None"]
    /\ numberLeft' = Len(args)
    /\ success' = TRUE
    /\ mainpc' = "polling"
    /\ UNCHANGED <<kTs, samples, kTidx, kTlist, args, endResult, overtook>>
    /\ UNCHANGED <<runVars, probe>>

\* a free pool process takes the next task of the queue
StartRun ==
    /\ mainpc = "polling"
    /\ NumRunning < MaxWorkers
    /\ \E n \in DOMAIN task :
         /\ task[n] = "queued"
         /\ \A m \in 1 .. n - 1 : task[m] # "queued"
         /\ task' = [task EXCEPT ![n] = "running"]
    /\ UNCHANGED <<mainpc, kTs, samples, kTidx, kTlist, args, produced, value,
                   numberLeft, success, endResult, overtook>>
    /\ UNCHANGED <<runVars, probe>>

\* a run ends and the pool's result handler records it: a result at the
\* position of its task, the first exception in place of the whole list
FinishRun ==
    /\ mainpc = "polling"
    /\ \E n \in DOMAIN task :
         /\ task[n] = "running"
         /\ \E res \in simulateParallel(args[n]) :
              /\ task' = [task EXCEPT ![n] = "done"]
              /\ produced' = [produced EXCEPT ![n] = res]
              /\ numberLeft' = numberLeft - 1
              /\ overtook' = (overtook \/ \E m \in 1 .. n - 1 : task[m] # "done")
              /\ IF res.ok /\ success
                 THEN /\ value' = SetValue(value, n, res.mag)
                      /\ UNCHANGED success
                 ELSE IF ~res.ok /\ success
                      THEN /\ success' = FALSE
                           /\ value' = res.error
                      ELSE UNCHANGED <<success, value>>
    /\ UNCHANGED <<mainpc, kTs, samples, kTidx, kTlist, args, endResult>>
    /\ UNCHANGED <<runVars, probe>>

\* the progress loop leaves once result.ready(); workers.close(), workers.join()
PollReady ==
    /\ mainpc = "polling"
    /\ numberLeft = 0
    /\ mainpc' = "joined"
    /\ UNCHANGED <<kTs, samples, kTidx, kTlist, args, task, produced, value,
                   numberLeft, success, endResult, overtook>>
    /\ UNCHANGED <<runVars, probe>>

\* endResult = result.get(): the list, or the stored exception raised again
GetResult ==
    /\ mainpc = "joined"
    /\ IF success
       THEN /\ endResult' = value
            /\ mainpc' = "plotted"
       ELSE /\ mainpc' = "raised"
            /\ UNCHANGED endResult
    /\ UNCHANGED <<kTs, samples, kTidx, kTlist, args, task, produced, value,
                   numberLeft, success, overtook>>
    /\ UNCHANGED <<runVars, probe>>

NextSweep ==
    ListTemperature \/ MakeArgs \/ MapAsync \/ StartRun \/ FinishRun \/ PollReady
    \/ GetResult

SpecSweep == InitSweep /\ [][NextSweep]_vars

-----------------------------------------------------------------------------
(* Properties of the sweep *)

SweepEnded == mainpc \in {"plotted", "raised"}

\* the sample of temperature number tIdx, sample number sIdx (both from 0)
RunIndex(tIdx, sIdx) == tIdx * samples + sIdx + 1

\* C5: whatever the order in which the runs end, a sweep whose runs all
\* return ends with one entry per dispatched run, and the entry of
\* (temperature, sample index) is the magnetization that run returned
SweepTableKeyed ==
    /\ mainpc = "raised" => \E n \in DOMAIN produced : ~produced[n].ok
    /\ mainpc = "plotted" =>
          /\ Len(endResult) = Len(kTs) * samples
          /\ Len(kTlist) = Len(endResult)
          /\ \A tIdx \in 0 .. Len(kTs) - 1, sIdx \in 0 .. samples - 1 :
                /\ produced[RunIndex(tIdx, sIdx)].ok
                /\ endResult[RunIndex(tIdx, sIdx)] = produced[RunIndex(tIdx, sIdx)].mag
                /\ kTlist[RunIndex(tIdx, sIdx)] = kTs[tIdx + 1]
                /\ args[RunIndex(tIdx, sIdx)][4] = kTs[tIdx + 1]

\* C5 witness: a finished sweep of four runs with different results, one of
\* which ended before a run dispatched earlier
SweepOfFourPlotted ==
    /\ mainpc = "plotted" /\ Len(kTs) = 2 /\ samples = 2 /\ overtook
    /\ endResult[1] # endResult[2] /\ endResult[2] # endResult[3]
    /\ kTs[1] # kTs[2]

\* C6: when runs fail the sweep still ends with one entry per run: the
\* magnetization of every run that returned and a failure marker for every
\* run that raised
SweepSurvivesFailure ==
    SweepEnded =>
        /\ Len(endResult) = Len(args)
        /\ \A n \in 1 .. Len(args) :
              IF produced[n].ok THEN endResult[n] = produced[n].mag
                                ELSE endResult[n] = produced[n].error

\* C8: the argument list holds T * S records; record i (from 0) carries
\* temperature number i div S, and the same fixed parameters as every other
RunListGrouped ==
    mainpc \notin {"idle", "listing"} =>
        /\ Len(args) = Len(kTs) * samples
        /\ \A idx \in 0 .. Len(args) - 1 :
              args[idx + 1] = <<SweepRows, SweepCols, SweepProb, kTs[(idx \div samples) + 1],
                                SweepJ, SweepB, SweepMu, SweepTmax>>

\* C8 witness: two different temperatures, two samples each
RunListOfFour ==
    /\ mainpc = "dispatch" /\ Len(kTs) = 2 /\ samples = 2 /\ kTs[1] # kTs[2]
    /\ Len(args) = 4

====
